---- MODULE Spec2Model ----
(***************************************************************************)
(* Model of openai_parsed: the assurance engine _ParsedOpenAIClient       *)
(* (client.py), its exceptions (exceptions.py) and the concrete parsers   *)
(* (parsers.py).  Text is a sequence of one-character strings, so that    *)
(* strip / replace / lower / concatenation are computed as Python         *)
(* computes them.                                                         *)
(***************************************************************************)
EXTENDS Integers, Sequences, FiniteSets, TLC

(***************************************************************************)
(* Bounds of the model.                                                   *)
(***************************************************************************)
\* largest max_retries a caller or a constructor passes
MaxRetriesBound == 3

(***************************************************************************)
(* Optional[T]: Python's None against a given value.                      *)
(***************************************************************************)
Some(v) == [given |-> TRUE, value |-> v]

NoneStr == [given |-> FALSE, value |-> <<>>]

NoneInt == [given |-> FALSE, value |-> 0]

NoneBool == [given |-> FALSE, value |-> FALSE]

(***************************************************************************)
(* str methods used by the engine and the parsers.                        *)
(***************************************************************************)
Whitespace == {" ", "\n", "\t"}

UpperChars == <<"A", "B", "C", "D", "E", "F", "G", "H", "I", "J", "K", "L", "M",
                "N", "O", "P", "Q", "R", "S", "T", "U", "V", "W", "X", "Y", "Z">>

LowerChars == <<"a", "b", "c", "d", "e", "f", "g", "h", "i", "j", "k", "l", "m",
                "n", "o", "p", "q", "r", "s", "t", "u", "v", "w", "x", "y", "z">>

DigitChars == <<"0", "1", "2", "3", "4", "5", "6", "7", "8", "9">>

\* str.strip(): what lies between the first and the last non-whitespace character
Strip(s) ==
    IF \A i \in 1..Len(s) : s[i] \in Whitespace THEN <<>>
    ELSE SubSeq(s,
                CHOOSE i \in 1..Len(s) :
                    s[i] \notin Whitespace /\ \A j \in 1..(i - 1) : s[j] \in Whitespace,
                CHOOSE i \in 1..Len(s) :
                    s[i] \notin Whitespace /\ \A j \in (i + 1)..Len(s) : s[j] \in Whitespace)

\* str.replace(c, "")
Remove(s, c) == SelectSeq(s, LAMBDA x : x # c)

ToLower ==
    [c \in {UpperChars[i] : i \in 1..Len(UpperChars)} |->
        LowerChars[CHOOSE i \in 1..Len(UpperChars) : UpperChars[i] = c]]

LowerChar(c) == IF c \in DOMAIN ToLower THEN ToLower[c] ELSE c

\* str.lower()
Lower(s) == [i \in 1..Len(s) |-> LowerChar(s[i])]

(***************************************************************************)
(* exceptions.py                                                          *)
(***************************************************************************)
LLMDeclinedError(p) == [type |-> "LLMDeclinedError", prompt |-> p]

ParseFailedError(r) == [exc |-> "ParseFailedError", response |-> r]

LLMRetriesError(n, p, log) ==
    [type |-> "LLMRetriesError", max_retries |-> n, prompt |-> p, response_log |-> log]

(***************************************************************************)
(* parsers.py                                                             *)
(***************************************************************************)
Returned(v) == [exc |-> "none", value |-> v]

\* variant: "1" and "0" are taken as True and False too
parse_boolean_digits(response) ==
    LET normalized == Lower(Strip(response))
    IN  IF normalized \in {<<"t", "r", "u", "e">>, <<"y", "e", "s">>, <<"1">>}
        THEN Returned(TRUE)
        ELSE IF normalized \in {<<"f", "a", "l", "s", "e">>, <<"n", "o">>, <<"0">>}
        THEN Returned(FALSE)
        ELSE ParseFailedError(response)

parse_boolean(response) ==
    LET normalized == Lower(Strip(response))
    IN  IF normalized \in {<<"t", "r", "u", "e">>, <<"y", "e", "s">>} THEN Returned(TRUE)
        ELSE IF normalized \in {<<"f", "a", "l", "s", "e">>, <<"n", "o">>} THEN Returned(FALSE)
        ELSE ParseFailedError(response)

DigitValues == [c \in {DigitChars[i] : i \in 1..Len(DigitChars)} |->
                    (CHOOSE i \in 1..Len(DigitChars) : DigitChars[i] = c) - 1]

IsDigit(c) == c \in DOMAIN DigitValues

DigitValue(c) == DigitValues[c]

\* digits of an int() literal: digit (["_"] digit)*
IsDigitPart(s) ==
    /\ s # <<>>
    /\ IsDigit(s[1])
    /\ IsDigit(s[Len(s)])
    /\ \A i \in 1..Len(s) : IsDigit(s[i]) \/ s[i] = "_"
    /\ \A i \in 1..(Len(s) - 1) : ~(s[i] = "_" /\ s[i + 1] = "_")

\* the number the first n digits of ds denote
RECURSIVE DigitsValue(_, _)
DigitsValue(ds, n) ==
    IF n = 0 THEN 0 ELSE 10 * DigitsValue(ds, n - 1) + DigitValue(ds[n])

\* int(text): [sign] digits, surrounding whitespace ignored; "ValueError" otherwise
IntOf(text) ==
    LET s      == Strip(text)
        signed == s # <<>> /\ Head(s) \in {"+", "-"}
        digits == IF signed THEN Tail(s) ELSE s
    IN  IF ~IsDigitPart(digits) THEN [ok |-> FALSE, value |-> 0]
        ELSE LET ds == SelectSeq(digits, IsDigit)
             IN  [ok |-> TRUE,
                  value |-> IF signed /\ Head(s) = "-" THEN 0 - DigitsValue(ds, Len(ds))
                            ELSE DigitsValue(ds, Len(ds))]

\* the digits of a digit part, without the underscores, as a number
DigitPartValue(s) == LET ds == SelectSeq(s, IsDigit) IN DigitsValue(ds, Len(ds))

\* the first place of s that holds a character of cs; Len(s) + 1 when none does
FirstOf(s, cs) ==
    IF \E i \in 1..Len(s) : s[i] \in cs
    THEN CHOOSE i \in 1..Len(s) : s[i] \in cs /\ \A j \in 1..(i - 1) : s[j] \notin cs
    ELSE Len(s) + 1

\* m * 10^e with m not a multiple of 10 (0 * 10^0 for zero)
RECURSIVE Decimal(_, _)
Decimal(m, e) ==
    IF m = 0 THEN [mantissa |-> 0, exp10 |-> 0]
    ELSE IF m % 10 = 0 THEN Decimal(m \div 10, e + 1)
    ELSE [mantissa |-> m, exp10 |-> e]

\* float(text): [sign] (number [exponent] | "inf" | "infinity" | "nan"), surrounding
\* whitespace ignored, where number is [digits] "." digits or digits ["."]
\* and exponent is ("e" | "E") [sign] digits; "ValueError" otherwise.
\* The value is kept as sign, mantissa and power of ten.
FloatOf(text) ==
    LET s        == Strip(text)
        signed   == s # <<>> /\ Head(s) \in {"+", "-"}
        negative == signed /\ Head(s) = "-"
        unsigned == IF signed THEN Tail(s) ELSE s
        e        == FirstOf(unsigned, {"e", "E"})
        number   == SubSeq(unsigned, 1, e - 1)
        exponent == SubSeq(unsigned, e + 1, Len(unsigned))
        esigned  == exponent # <<>> /\ Head(exponent) \in {"+", "-"}
        edigits  == IF esigned THEN Tail(exponent) ELSE exponent
        dot      == FirstOf(number, {"."})
        whole    == SubSeq(number, 1, dot - 1)
        fraction == SubSeq(number, dot + 1, Len(number))
        number_ok ==
            IF dot > Len(number) THEN IsDigitPart(whole)
            ELSE \/ IsDigitPart(whole) /\ (fraction = <<>> \/ IsDigitPart(fraction))
                 \/ whole = <<>> /\ IsDigitPart(fraction)
        exponent_ok == e > Len(unsigned) \/ IsDigitPart(edigits)
        fdigits  == SelectSeq(fraction, IsDigit)
        exp      == IF e > Len(unsigned) THEN 0
                    ELSE IF esigned /\ Head(exponent) = "-" THEN 0 - DigitPartValue(edigits)
                    ELSE DigitPartValue(edigits)
    IN  IF Lower(unsigned) \in {<<"i", "n", "f">>, <<"i", "n", "f", "i", "n", "i", "t", "y">>}
        THEN [ok |-> TRUE, value |-> [kind |-> "inf", negative |-> negative]]
        ELSE IF Lower(unsigned) = <<"n", "a", "n">>
        THEN [ok |-> TRUE, value |-> [kind |-> "nan"]]
        ELSE IF number_ok /\ exponent_ok
        THEN [ok |-> TRUE,
              value |-> [kind |-> "finite", negative |-> negative,
                         decimal |-> Decimal(DigitPartValue(whole \o fdigits),
                                             exp - Len(fdigits))]]
        ELSE [ok |-> FALSE, value |-> [kind |-> "nan"]]

parse_float(response) ==
    LET r == FloatOf(Strip(response))
    IN  IF r.ok THEN Returned(r.value) ELSE ParseFailedError(response)

\* variant: str.isdigit() before int(), a sign is not taken
parse_integer_isdigit(response) ==
    LET s == Strip(response)
    IN  IF s # <<>> /\ \A i \in 1..Len(s) : IsDigit(s[i])
        THEN Returned(DigitsValue(s, Len(s)))
        ELSE ParseFailedError(response)

parse_integer(response) ==
    LET r == IntOf(Strip(response))
    IN  IF r.ok THEN Returned(r.value) ELSE ParseFailedError(response)

\* str.split(sep), sep not empty: the segments of s from place start on, the
\* places before i already searched; occurrences are taken left to right
RECURSIVE SplitFrom(_, _, _, _)
SplitFrom(s, sep, start, i) ==
    IF i + Len(sep) - 1 > Len(s) THEN << SubSeq(s, start, Len(s)) >>
    ELSE IF SubSeq(s, i, i + Len(sep) - 1) = sep
    THEN << SubSeq(s, start, i - 1) >> \o SplitFrom(s, sep, i + Len(sep), i + Len(sep))
    ELSE SplitFrom(s, sep, start, i + 1)

\* str.split(sep): ValueError("empty separator") when sep is ""
Split(s, sep) ==
    IF sep = <<>> THEN [ok |-> FALSE, parts |-> <<>>]
    ELSE [ok |-> TRUE, parts |-> SplitFrom(s, sep, 1, 1)]

\* StringListParser(separator=..., allow_empty=...)(response=...)
StringListParser(separator, allow_empty, response) ==
    LET split    == Split(response, separator)
        stripped == [k \in 1..Len(split.parts) |-> Strip(split.parts[k])]
        items    == SelectSeq(stripped, LAMBDA item : item # <<>>)
    IN  IF ~split.ok THEN [exc |-> "ValueError"]
        ELSE IF items = <<>> /\ ~allow_empty THEN ParseFailedError(response)
        ELSE Returned(items)

\* variant: the response is compared with the choices without regard to case
StringChoiceParserAnyCase(choices, response) ==
    LET normalized == Strip(response)
    IN  IF \E c \in choices : Lower(c) = Lower(normalized) THEN Returned(normalized)
        ELSE ParseFailedError(response)

\* StringChoiceParser(choices)(response=...)
StringChoiceParser(choices, response) ==
    LET normalized == Strip(response)
    IN  IF normalized \in choices THEN Returned(normalized)
        ELSE ParseFailedError(response)

\* the StringListParser objects of the model, by the expression that makes them
ListParsers ==
    [ p \in {"StringListParser()", "StringListParser(allow_empty=True)",
             "StringListParser(separator=';', allow_empty=True)",
             "StringListParser(separator='::')", "StringListParser(separator='')"} |->
        CASE p = "StringListParser()" -> [separator |-> <<",">>, allow_empty |-> FALSE]
          [] p = "StringListParser(allow_empty=True)" ->
                [separator |-> <<",">>, allow_empty |-> TRUE]
          [] p = "StringListParser(separator=';', allow_empty=True)" ->
                [separator |-> <<";">>, allow_empty |-> TRUE]
          [] p = "StringListParser(separator='::')" ->
                [separator |-> <<":", ":">>, allow_empty |-> FALSE]
          [] OTHER -> [separator |-> <<>>, allow_empty |-> FALSE] ]

\* the StringChoiceParser objects of the model
ChoiceParsers ==
    [ p \in {"StringChoiceParser({'yes', 'no'})", "StringChoiceParser({'A', 'b c'})",
             "StringChoiceParser(set())"} |->
        CASE p = "StringChoiceParser({'yes', 'no'})" -> {<<"y", "e", "s">>, <<"n", "o">>}
          [] p = "StringChoiceParser({'A', 'b c'})" -> {<<"A">>, <<"b", " ", "c">>}
          [] OTHER -> {} ]

\* the parsers of parsers.py
ConcreteParsers ==
    {"parse_boolean", "parse_float", "parse_integer"}
        \cup DOMAIN ListParsers \cup DOMAIN ChoiceParsers

\* Parser protocol: a parser supplied by the caller; what it does with a response is
\* the caller's business: it returns a value, raises ParseFailedError or raises
\* anything else
caller_parser(response) ==
    {Returned(Strip(response)), ParseFailedError(response), [exc |-> "KeyError"]}

Parsers == {"parse_boolean", "parse_integer", "caller_parser"}

\* parser(response=raw): the outcomes the call can have
ParserCall(parser, response) ==
    CASE parser = "parse_boolean" -> {parse_boolean(response)}
      [] parser = "parse_float" -> {parse_float(response)}
      [] parser = "parse_integer" -> {parse_integer(response)}
      [] parser \in DOMAIN ListParsers ->
            {StringListParser(ListParsers[parser].separator,
                              ListParsers[parser].allow_empty, response)}
      [] parser \in DOMAIN ChoiceParsers ->
            {StringChoiceParser(ChoiceParsers[parser], response)}
      [] OTHER -> caller_parser(response)

(***************************************************************************)
(* client.py: _ParsedOpenAIClient                                         *)
(***************************************************************************)
\* self._allow_decline_message
AllowDeclineMessage ==
       <<"I", "f", " ", "y", "o", "u", " ", "d", "o", "n", "'", "t">>
    \o <<" ", "h", "a", "v", "e", " ", "e", "n", "o", "u", "g", "h">>
    \o <<" ", "k", "n", "o", "w", "l", "e", "d", "g", "e", " ", "t">>
    \o <<"o", " ", "p", "r", "o", "v", "i", "d", "e", " ", "a", " ">>
    \o <<"r", "e", "a", "s", "o", "n", "a", "b", "l", "e", " ", "a">>
    \o <<"n", "s", "w", "e", "r", ",", " ", "r", "e", "s", "p", "o">>
    \o <<"n", "d", " ", "o", "n", "l", "y", " ", "w", "i", "t", "h">>
    \o <<" ", "t", "h", "e", " ", "w", "o", "r", "d", " ", "'", "D">>
    \o <<"E", "C", "L", "I", "N", "E", "D", "'", "\n">>

Declined == <<"d", "e", "c", "l", "i", "n", "e", "d">>

\* the values the model draws the inputs from
ModelName == "gpt-4.1-mini"

CtorPrefaces == {NoneStr, Some(<<>>), Some(<<"P", "\n">>)}

CtorMaxRetries == {0, MaxRetriesBound}

SetPrefaces == {<<>>, <<"S", "\n">>}

Bodies == {<<"Q", "?">>}

MaxRetriesArgs == {NoneInt} \cup {Some(n) : n \in (0 - 1)..MaxRetriesBound}

AllowDeclineArgs == {NoneBool, Some(TRUE), Some(FALSE)}

\* response.output_text of the remote model
Responses ==
    { <<" ", "'", "D", "e", "c", "l", "i", "n", "e", "d", "'", "\n">>,
      <<"'", " ", "d", "e", "c", "l", "i", "n", "e", "d", " ", "'">>,
      <<" ", "7", " ">>,
      <<"n", "o">>,
      <<"3", ".", "0">> }

\* what _get_response raises
TransportErrors == {[type |-> "ValueError"], [type |-> "APIError"]}

VARIABLES
    self_model, self_std_preface, self_max_retries, self_allow_decline,
    ctor_preface, preface_calls,
    pc, passed, last_recorded, body, parser, prompt, allow_decline, max_retries,
    response_log,
    attempt, raw, parsed, result,
    dispatched, received, transport_exc, parse_calls, caught, notices

engine == <<self_model, self_std_preface, self_max_retries, self_allow_decline>>

history == <<ctor_preface, preface_calls>>

frame == <<pc, passed, last_recorded, body, parser, prompt, allow_decline, max_retries,
           response_log,
           attempt, raw, parsed, result>>

effects == <<dispatched, received, transport_exc, parse_calls, caught, notices>>

vars == <<engine, history, frame, effects>>

NoResult == [kind |-> "none"]

ReturnedValue(v) == [kind |-> "returned", value |-> v]

Raised(e) == [kind |-> "raised", exc |-> e]

\* no override given: max_retries=None, allow_decline=None
NoArgs == [max_retries |-> NoneInt, allow_decline |-> NoneBool]

NoFrame ==
    /\ pc = "idle"
    /\ passed = NoArgs
    /\ last_recorded = 0
    /\ body = <<>>
    /\ parser = "none"
    /\ prompt = <<>>
    /\ allow_decline = FALSE
    /\ max_retries = 0
    /\ response_log = <<>>
    /\ attempt = 0
    /\ raw = <<>>
    /\ parsed = [exc |-> "unset"]
    /\ result = NoResult
    /\ dispatched = <<>>
    /\ received = <<>>
    /\ transport_exc = [type |-> "none"]
    /\ parse_calls = 0
    /\ caught = 0
    /\ notices = <<>>

\* __init__
Init ==
    /\ self_model = ModelName
    /\ self_std_preface \in CtorPrefaces
    /\ self_max_retries \in CtorMaxRetries
    /\ self_allow_decline \in BOOLEAN
    /\ ctor_preface = self_std_preface
    /\ preface_calls = "none"
    /\ NoFrame

\* preface_calls: the calls of the two setters so far: "none", "set" (one
\* set_std_preface), "set_clear" (one set_std_preface, then one
\* clear_std_preface) or "other"
set_std_preface(preface) ==
    /\ pc = "idle"
    /\ self_std_preface' = Some(preface)
    /\ preface_calls' = IF preface_calls = "none" THEN "set" ELSE "other"
    /\ UNCHANGED <<self_model, self_max_retries, self_allow_decline, ctor_preface,
                   frame, effects>>

\* variant: clear_std_preface leaves the preface as it is
clear_std_preface_kept ==
    /\ pc = "idle"
    /\ self_std_preface' = self_std_preface
    /\ preface_calls' = IF preface_calls = "set" THEN "set_clear" ELSE "other"
    /\ UNCHANGED <<self_model, self_max_retries, self_allow_decline, ctor_preface,
                   frame, effects>>

ClearedPreface == Some(<<>>)

clear_std_preface ==
    /\ pc = "idle"
    /\ self_std_preface' = ClearedPreface
    /\ preface_calls' = IF preface_calls = "set" THEN "set_clear" ELSE "other"
    /\ UNCHANGED <<self_model, self_max_retries, self_allow_decline, ctor_preface,
                   frame, effects>>

\* variant: allow_decline or self._allow_decline, an explicit False is not seen
ResolveAllowDeclineTruthy(arg, default) ==
    IF arg.given /\ arg.value THEN TRUE ELSE default

\* allow_decline if allow_decline is not None else self._allow_decline
ResolveAllowDecline(arg, default) == IF arg.given THEN arg.value ELSE default

\* self._max_retries if max_retries is None else max_retries
ResolveMaxRetries(arg, default) == IF ~arg.given THEN default ELSE arg.value

\* if self._std_preface is None: self._std_preface = ""
PrefaceForCall(preface) == IF ~preface.given THEN Some(<<>>) ELSE preface

\* variant: the decline instruction is put before the body
ComposePromptSuffixFirst(preface, b, decline) ==
    IF decline THEN (preface \o AllowDeclineMessage) \o b ELSE preface \o b

\* prompt = self._std_preface + prompt; if allow_decline: prompt += message
ComposePrompt(preface, b, decline) ==
    IF decline THEN (preface \o b) \o AllowDeclineMessage ELSE preface \o b

\* variant: the comparison without lower()
IsDeclineCaseSensitive(r) == Remove(Remove(Strip(r), "\""), "'") = Declined

\* raw.strip().replace('"', "").replace("'", "").lower() == "declined"
IsDecline(r) == Lower(Remove(Remove(Strip(r), "\""), "'")) = Declined

\* variant: the loop body runs once before the count is looked at
HasNextAtLeastOnce(last, n) == last = 0 \/ last + 1 <= n

\* range(1, max_retries + 1) yields a value after the one it gave last
HasNext(last, n) == last + 1 <= n

\* variant: the record keeps the trimmed text
RecordedStripped(log, a, r) == (a :> Strip(r)) @@ log

\* variant: every response is stored under key 1
RecordedAtOne(log, a, r) == (1 :> r) @@ log

\* response_log[attempt] = raw
Recorded(log, a, r) == (a :> r) @@ log

\* variant: the record is made once and shared, a call starts with what it holds
NewRecordShared == (1 :> <<"n", "o">>)

\* response_log: dict[int, str] = {}
NewRecord == <<>>

\* ensure, up to the loop: the flag, the prompt, the empty record, the count
Ensure(b, p, mr, ad) ==
    /\ pc = "idle"
    /\ allow_decline' = ResolveAllowDecline(ad, self_allow_decline)
    /\ self_std_preface' = PrefaceForCall(self_std_preface)
    /\ prompt' = ComposePrompt(self_std_preface'.value, b, allow_decline')
    /\ response_log' = NewRecord
    /\ max_retries' = ResolveMaxRetries(mr, self_max_retries)
    /\ body' = b
    /\ parser' = p
    /\ attempt' = 0
    /\ passed' = [max_retries |-> mr, allow_decline |-> ad]
    /\ pc' = "for"
    /\ UNCHANGED <<self_model, self_max_retries, self_allow_decline, history,
                   last_recorded, raw, parsed, result, effects>>

\* the loop gives the next attempt, which calls _get_response(prompt)
ForDispatch ==
    /\ pc = "for"
    /\ passed' = NoArgs
    /\ last_recorded' = 0
    /\ HasNext(attempt, max_retries)
    /\ attempt' = attempt + 1
    /\ dispatched' = Append(dispatched, [model |-> self_model, input |-> prompt])
    /\ pc' = "get_response"
    /\ UNCHANGED <<engine, history, body, parser, prompt, allow_decline, max_retries,
                   response_log, raw, parsed, result,
                   received, transport_exc, parse_calls, caught, notices>>

\* the loop is over: raise LLMRetriesError
ForExhausted ==
    /\ pc = "for"
    /\ passed' = NoArgs
    /\ last_recorded' = 0
    /\ ~HasNext(attempt, max_retries)
    /\ result' = Raised(LLMRetriesError(max_retries, prompt, response_log))
    /\ pc' = "done"
    /\ UNCHANGED <<engine, history, body, parser, prompt, allow_decline, max_retries,
                   response_log, attempt, raw, parsed, effects>>

\* _get_response returns response.output_text
GetResponseReturns(r) ==
    /\ pc = "get_response"
    /\ raw' = r
    /\ received' = Append(received, r)
    /\ pc' = "record"
    /\ UNCHANGED <<engine, history, passed, last_recorded, body, parser, prompt,
                   allow_decline, max_retries,
                   response_log, attempt, parsed, result,
                   dispatched, transport_exc, parse_calls, caught, notices>>

\* variant: a handler around the call takes the failure as one more failed attempt
GetResponseRaisesRetried(e) ==
    /\ pc = "get_response"
    /\ transport_exc' = e
    /\ pc' = "for"
    /\ UNCHANGED <<engine, history, passed, last_recorded, body, parser, prompt,
                   allow_decline, max_retries,
                   response_log, attempt, raw, parsed, result,
                   dispatched, received, parse_calls, caught, notices>>

\* _get_response raises: no key in the environment, or the remote call fails;
\* ensure has no handler around the call
GetResponseRaises(e) ==
    /\ pc = "get_response"
    /\ transport_exc' = e
    /\ result' = Raised(e)
    /\ pc' = "done"
    /\ UNCHANGED <<engine, history, passed, last_recorded, body, parser, prompt,
                   allow_decline, max_retries,
                   response_log, attempt, raw, parsed,
                   dispatched, received, parse_calls, caught, notices>>

\* response_log[attempt] = raw
Record ==
    /\ pc = "record"
    /\ response_log' = Recorded(response_log, attempt, raw)
    /\ pc' = "classify"
    /\ UNCHANGED <<engine, history, passed, last_recorded, body, parser, prompt,
                   allow_decline, max_retries,
                   attempt, raw, parsed, result, effects>>

\* if allow_decline: if raw ... == "declined": raise LLMDeclinedError(prompt=prompt)
Decline ==
    /\ pc = "classify"
    /\ allow_decline /\ IsDecline(raw)
    /\ result' = Raised(LLMDeclinedError(prompt))
    /\ pc' = "done"
    /\ UNCHANGED <<engine, history, passed, last_recorded, body, parser, prompt,
                   allow_decline, max_retries,
                   response_log, attempt, raw, parsed, effects>>

NoDecline ==
    /\ pc = "classify"
    /\ ~(allow_decline /\ IsDecline(raw))
    /\ pc' = "parse"
    /\ UNCHANGED <<engine, history, passed, last_recorded, body, parser, prompt,
                   allow_decline, max_retries,
                   response_log, attempt, raw, parsed, result, effects>>

\* variant: a parsed value does not end the loop
AfterParseKeepsTrying(out) ==
    CASE out.exc \in {"none", "ParseFailedError"} ->
            /\ result' = result
            /\ pc' = "except"
            /\ caught' = caught + 1
      [] OTHER ->
            /\ result' = Raised([type |-> out.exc])
            /\ pc' = "done"
            /\ caught' = caught

\* variant: no handler, ParseFailedError leaves ensure
AfterParsePropagates(out) ==
    CASE out.exc = "none" ->
            /\ result' = ReturnedValue(out.value)
            /\ pc' = "done"
            /\ caught' = caught
      [] OTHER ->
            /\ result' = Raised([type |-> out.exc])
            /\ pc' = "done"
            /\ caught' = caught

\* variant: except Exception, every parser failure is retried
AfterParseCatchesAll(out) ==
    CASE out.exc = "none" ->
            /\ result' = ReturnedValue(out.value)
            /\ pc' = "done"
            /\ caught' = caught
      [] OTHER ->
            /\ result' = result
            /\ pc' = "except"
            /\ caught' = caught + 1

\* False, 0 and the empty list or text, told apart by the parser that gave them
Falsy(v) ==
    CASE parser = "parse_boolean" -> v = FALSE
      [] parser = "parse_integer" -> v = 0
      [] parser = "parse_float" -> v.kind = "finite" /\ v.decimal.mantissa = 0
      [] OTHER -> v = <<>>

\* variant: if parsed: return parsed, a falsy value is taken as a failure
AfterParseTruthy(out) ==
    CASE out.exc = "none" /\ ~Falsy(out.value) ->
            /\ result' = ReturnedValue(out.value)
            /\ pc' = "done"
            /\ caught' = caught
      [] out.exc = "ParseFailedError" \/ (out.exc = "none" /\ Falsy(out.value)) ->
            /\ result' = result
            /\ pc' = "except"
            /\ caught' = caught + 1
      [] OTHER ->
            /\ result' = Raised([type |-> out.exc])
            /\ pc' = "done"
            /\ caught' = caught

\* what ensure does with the outcome of parser(response=raw)
AfterParse(out) ==
    CASE out.exc = "none" ->
            /\ result' = ReturnedValue(out.value)
            /\ pc' = "done"
            /\ caught' = caught
      [] out.exc = "ParseFailedError" ->
            /\ result' = result
            /\ pc' = "except"
            /\ caught' = caught + 1
      [] OTHER ->
            /\ result' = Raised([type |-> out.exc])
            /\ pc' = "done"
            /\ caught' = caught

\* try: parsed = parser(response=raw); return parsed / except ParseFailedError
Parse ==
    /\ pc = "parse"
    /\ \E out \in ParserCall(parser, raw) :
          /\ parsed' = out
          /\ AfterParse(out)
    /\ parse_calls' = parse_calls + 1
    /\ UNCHANGED <<engine, history, passed, last_recorded, body, parser, prompt,
                   allow_decline, max_retries,
                   response_log, attempt, raw,
                   dispatched, received, transport_exc, notices>>

\* variant: two notices for one failed attempt
NoticeTwice ==
    /\ pc = "except"
    /\ notices' = notices \o << [raw |-> raw, attempt |-> attempt, max_retries |-> max_retries],
                               [raw |-> raw, attempt |-> attempt, max_retries |-> max_retries] >>
    /\ pc' = "for"
    /\ UNCHANGED <<engine, history, passed, last_recorded, body, parser, prompt,
                   allow_decline, max_retries,
                   response_log, attempt, raw, parsed, result,
                   dispatched, received, transport_exc, parse_calls, caught>>

\* self._console.log(f"Invalid response: '{raw}'. Retrying... ({attempt}/{max_retries})")
Notice ==
    /\ pc = "except"
    /\ notices' = Append(notices, [raw |-> raw, attempt |-> attempt,
                                   max_retries |-> max_retries])
    /\ pc' = "for"
    /\ UNCHANGED <<engine, history, passed, last_recorded, body, parser, prompt,
                   allow_decline, max_retries,
                   response_log, attempt, raw, parsed, result,
                   dispatched, received, transport_exc, parse_calls, caught>>

\* the caller has the value or the exception; the locals of the call are gone.
\* last_recorded: how many responses the call that has just ended had recorded,
\* known until the loop of the next call starts
Return ==
    /\ pc = "done"
    /\ pc' = "idle"
    /\ body' = <<>>
    /\ parser' = "none"
    /\ prompt' = <<>>
    /\ allow_decline' = FALSE
    /\ max_retries' = 0
    /\ response_log' = <<>>
    /\ attempt' = 0
    /\ raw' = <<>>
    /\ parsed' = [exc |-> "unset"]
    /\ result' = NoResult
    /\ dispatched' = <<>>
    /\ received' = <<>>
    /\ transport_exc' = [type |-> "none"]
    /\ parse_calls' = 0
    /\ caught' = 0
    /\ notices' = <<>>
    /\ last_recorded' = Cardinality(DOMAIN response_log)
    /\ UNCHANGED <<engine, history, passed>>

Next ==
    \/ \E t \in SetPrefaces : set_std_preface(t)
    \/ clear_std_preface
    \/ \E b \in Bodies, p \in Parsers, mr \in MaxRetriesArgs, ad \in AllowDeclineArgs :
          Ensure(b, p, mr, ad)
    \/ ForDispatch
    \/ ForExhausted
    \/ \E r \in Responses : GetResponseReturns(r)
    \/ \E e \in TransportErrors : GetResponseRaises(e)
    \/ Record
    \/ Decline
    \/ NoDecline
    \/ Parse
    \/ Notice
    \/ Return

Spec == Init /\ [][Next]_vars

TypeOK ==
    /\ pc \in {"idle", "for", "get_response", "record", "classify", "parse",
               "except", "done", "parser_call", "parser_done"}
    /\ attempt \in 0..(MaxRetriesBound + 1)
    /\ last_recorded \in 0..(MaxRetriesBound + 1)
    /\ allow_decline \in BOOLEAN

(***************************************************************************)
(* Properties of ensure.                                                  *)
(***************************************************************************)
\* every dispatch of the call was answered and every answer was rejected by the
\* parser with ParseFailedError
AllRejected ==
    /\ Len(received) = Len(dispatched)
    /\ caught = Len(received)

\* the text of the last response the transport returned, as the decline check
\* normalises it: trimmed, quotes removed, lower-cased
LastNormalised == Lower(Remove(Remove(Strip(received[Len(received)]), "'"), "\""))

\* C1: a call with max_retries = N >= 1 whose responses are all rejected by the
\* parser ends by raising LLMRetriesError after exactly N dispatches; the error
\* carries N, the composed prompt and a response_log with keys 1..N holding the
\* raw texts as the transport returned them.
C1_RetriesExhausted ==
    (pc = "done" /\ max_retries >= 1 /\ AllRejected) =>
        /\ result.kind = "raised"
        /\ result.exc.type = "LLMRetriesError"
        /\ Len(dispatched) = max_retries
        /\ result.exc.max_retries = max_retries
        /\ result.exc.prompt = prompt
        /\ \A i \in 1..Len(dispatched) : dispatched[i].input = result.exc.prompt
        /\ DOMAIN result.exc.response_log = 1..max_retries
        /\ \A i \in 1..max_retries : result.exc.response_log[i] = received[i]

C1_Witness ==
    /\ pc = "done"
    /\ max_retries = 3
    /\ AllRejected
    /\ result.kind = "raised"
    /\ result.exc.type = "LLMRetriesError"
    /\ result.exc.response_log[1] = <<" ", "7", " ">>
    /\ result.exc.response_log[3] = <<"3", ".", "0">>

\* C2: when the parser accepts the response of attempt k after k-1 rejections,
\* ensure returns the parser's value for that response, after k dispatches and
\* k-1 notices, with k entries in the record; nothing is dispatched, parsed or
\* reported after that.
C2_StateAtSuccess ==
    (pc = "done" /\ parsed.exc = "none") =>
        /\ result = ReturnedValue(parsed.value)
        /\ parsed \in ParserCall(parser, received[attempt])
        /\ attempt <= max_retries
        /\ caught = attempt - 1
        /\ Len(dispatched) = attempt
        /\ Len(notices) = attempt - 1
        /\ parse_calls = attempt
        /\ DOMAIN response_log = 1..attempt

C2_NothingAfterSuccess ==
    (result.kind = "returned") =>
        /\ Len(dispatched') <= Len(dispatched)
        /\ parse_calls' <= parse_calls
        /\ Len(notices') <= Len(notices)

C2_FirstSuccessReturns == [] C2_StateAtSuccess /\ [][C2_NothingAfterSuccess]_vars

C2_Witness ==
    /\ pc = "done"
    /\ parser = "parse_integer"
    /\ max_retries = 3
    /\ attempt = 2
    /\ result = ReturnedValue(7)
    /\ Len(notices) = 1

\* C3: with decline allowed, a response that is "declined" once trimmed, stripped
\* of quotes and lower-cased makes ensure raise LLMDeclinedError with the composed
\* prompt at once: the parser does not see that response and nothing more is
\* dispatched, whatever number of retries is left.
C3_DeclineEndsCall ==
    (/\ allow_decline
     /\ received # <<>>
     /\ pc \notin {"record", "classify"}
     /\ LastNormalised = Declined) =>
        /\ pc = "done"
        /\ result = Raised(LLMDeclinedError(prompt))
        /\ dispatched[1].input = result.exc.prompt
        /\ parse_calls = Len(received) - 1
        /\ Len(dispatched) = Len(received)

C3_Witness ==
    /\ pc = "done"
    /\ result.kind = "raised"
    /\ result.exc.type = "LLMDeclinedError"
    /\ attempt = 2
    /\ max_retries = 3
    /\ received[2] = <<" ", "'", "D", "e", "c", "l", "i", "n", "e", "d", "'", "\n">>

\* C4: a failure raised by _get_response at attempt k reaches the caller as it
\* is, not as LLMRetriesError or LLMDeclinedError; attempt k+1 is not dispatched
\* and the record has no entry for attempt k.
C4_TransportFailurePropagates ==
    (transport_exc.type # "none") =>
        /\ pc = "done"
        /\ result = Raised(transport_exc)
        /\ result.exc.type \notin {"LLMRetriesError", "LLMDeclinedError"}
        /\ Len(dispatched) = attempt
        /\ Len(received) = attempt - 1
        /\ attempt \notin DOMAIN response_log
        /\ DOMAIN response_log = 1..(attempt - 1)

C4_Witness ==
    /\ transport_exc.type = "APIError"
    /\ attempt = 2
    /\ max_retries = 3
    /\ result = Raised([type |-> "APIError"])
    /\ DOMAIN response_log = {1}

EntriesExpected ==
    IF pc \in {"get_response", "record"} \/ transport_exc.type # "none"
    THEN attempt - 1
    ELSE attempt

\* C6: within a call the record has the keys 1..m, m between 0 and max_retries;
\* an entry is never changed or removed; entry i is written after the dispatch
\* of attempt i has returned and before the decline check and the parse of
\* attempt i.
C6_RecordShape ==
    /\ DOMAIN response_log = 1..EntriesExpected
    /\ EntriesExpected >= 0
    /\ EntriesExpected > 0 => EntriesExpected <= max_retries
    /\ \A i \in DOMAIN response_log : response_log[i] = received[i]
    /\ pc = "get_response" => attempt \notin DOMAIN response_log
    /\ pc = "record" => Len(received) = attempt /\ attempt \notin DOMAIN response_log
    /\ pc \in {"classify", "parse"} => attempt \in DOMAIN response_log
    /\ parse_calls > 0 => parse_calls \in DOMAIN response_log

C6_EntriesKept ==
    (pc' # "idle") =>
        \A i \in DOMAIN response_log :
            /\ i \in DOMAIN response_log'
            /\ response_log'[i] = response_log[i]

EndsWith(s, t) ==
    /\ Len(s) >= Len(t)
    /\ SubSeq(s, Len(s) - Len(t) + 1, Len(s)) = t

\* C7: the prompt of a call is the engine's preface, then the caller's body, then
\* the decline instruction exactly when decline is allowed, in which case it is
\* the end of the prompt; every attempt dispatches that prompt and
\* LLMDeclinedError / LLMRetriesError carry it.
C7_ComposedPrompt ==
    (pc # "idle") =>
        /\ self_std_preface.given
        /\ allow_decline =>
              /\ EndsWith(prompt, AllowDeclineMessage)
              /\ SubSeq(prompt, 1, Len(prompt) - Len(AllowDeclineMessage))
                    = self_std_preface.value \o body
        /\ ~allow_decline => prompt = self_std_preface.value \o body
        /\ \A i \in 1..Len(dispatched) :
              dispatched[i] = [model |-> self_model, input |-> prompt]
        /\ (result.kind = "raised"
              /\ result.exc.type \in {"LLMDeclinedError", "LLMRetriesError"})
              => result.exc.prompt = prompt

C7_Witness ==
    /\ pc = "done"
    /\ allow_decline
    /\ self_std_preface.value = <<"S", "\n">>
    /\ Len(dispatched) = 2
    /\ result.kind = "raised"
    /\ result.exc.type = "LLMDeclinedError"
    /\ Len(result.exc.prompt) = 2 + 2 + Len(AllowDeclineMessage)

\* the prompt the running call would have on an engine constructed with the same
\* arguments on which set_std_preface was never called
PromptWithoutSet ==
    (IF ctor_preface.given THEN ctor_preface.value ELSE <<>>) \o body
        \o (IF allow_decline THEN AllowDeclineMessage ELSE <<>>)

\* C8 as stated: whatever preface the engine was constructed with, after
\* set_std_preface(p) and clear_std_preface() a call composes the prompt it
\* composes on an engine on which set_std_preface was never called.
C8_SetClearAnyPreface ==
    (pc # "idle" /\ preface_calls = "set_clear") => prompt = PromptWithoutSet

\* C8 amended: the same, for an engine constructed with an empty preface or
\* with None.
C8_SetClearEmptyPreface ==
    (pc # "idle" /\ preface_calls = "set_clear" /\ ctor_preface.value = <<>>)
        => prompt = PromptWithoutSet

C8_Witness ==
    /\ pc = "for"
    /\ preface_calls = "set_clear"
    /\ ~ctor_preface.given
    /\ prompt = <<"Q", "?">> \o AllowDeclineMessage

(***************************************************************************)
(* ensure is synchronous code: a call that has started keeps running, and *)
(* the transport call it blocks on comes back, with a text or a failure.  *)
(***************************************************************************)
EnsureStep ==
    \/ ForDispatch
    \/ ForExhausted
    \/ Record
    \/ Decline
    \/ NoDecline
    \/ Parse
    \/ Notice

TransportAnswers ==
    \/ \E r \in Responses : GetResponseReturns(r)
    \/ \E e \in TransportErrors : GetResponseRaises(e)

\* one engine, constructed with the default preface, that serves call after call
InitCalls == Init /\ self_std_preface = Some(<<>>)

NextCalls ==
    \/ \E b \in Bodies, p \in Parsers, mr \in MaxRetriesArgs, ad \in AllowDeclineArgs :
          Ensure(b, p, mr, ad)
    \/ EnsureStep
    \/ TransportAnswers
    \/ Return

FairSpec ==
    InitCalls /\ [][NextCalls]_vars /\ WF_vars(EnsureStep) /\ WF_vars(TransportAnswers)

\* the transport answered every dispatch of the call with a text, and the parser
\* did nothing but return a value or raise ParseFailedError
WellBehaved ==
    /\ transport_exc.type = "none"
    /\ parsed.exc \in {"unset", "none", "ParseFailedError"}

\* C9: a call whose transport always answers and whose parser only returns or
\* raises ParseFailedError ends, and ends in one of three ways: a parsed value,
\* LLMDeclinedError or LLMRetriesError; the caller never sees ParseFailedError.
C9_Outcomes ==
    /\ (pc = "done" /\ WellBehaved) =>
          \/ result.kind = "returned"
          \/ result.kind = "raised"
                /\ result.exc.type \in {"LLMDeclinedError", "LLMRetriesError"}
    /\ pc = "done" => result.kind \in {"returned", "raised"}
    /\ result.kind = "raised" => result.exc.type # "ParseFailedError"
    /\ pc # "done" => result.kind = "none"

C9_Terminates == [] C9_Outcomes /\ ((pc # "idle") ~> (pc = "done"))

C9_Witness ==
    /\ pc = "done"
    /\ WellBehaved
    /\ parser = "caller_parser"
    /\ caught = 2
    /\ result.kind = "returned"

\* C10: an exception of the parser other than ParseFailedError ends the call at
\* the attempt where it is raised, as that exception, with no notice for the
\* attempt and no further dispatch; a ParseFailedError at an attempt k below
\* max_retries is followed by the dispatch of attempt k+1.
C10_OtherExceptionEnds ==
    (parsed.exc \notin {"unset", "none", "ParseFailedError"}) =>
        /\ pc = "done"
        /\ result = Raised([type |-> parsed.exc])
        /\ parse_calls = attempt
        /\ caught = attempt - 1
        /\ Len(notices) = attempt - 1
        /\ Len(dispatched) = attempt

C10_OnlyParseFailedRetried ==
    /\ [] C10_OtherExceptionEnds
    /\ \A k \in 1..MaxRetriesBound :
          (pc = "except" /\ attempt = k /\ k < max_retries)
              ~> (pc = "get_response" /\ attempt = k + 1 /\ Len(dispatched) = k + 1)

C10_Witness ==
    /\ pc = "done"
    /\ parsed.exc = "KeyError"
    /\ attempt = 2
    /\ max_retries = 3
    /\ Len(notices) = 1
    /\ Len(dispatched) = 2

(***************************************************************************)
(* One engine serving call after call, without the preface setters.       *)
(***************************************************************************)
CallsSpec == InitCalls /\ [][NextCalls]_vars

IsRetriesError == result.kind = "raised" /\ result.exc.type = "LLMRetriesError"

\* C11: in any sequence of ensure calls on one engine every call starts with an
\* empty attempt record and numbers its attempts from 1: the response_log of an
\* LLMRetriesError holds the responses received in the call that raises it,
\* under the keys 1..n in the order they came, and nothing of an earlier call.
C11_RecordPerCall ==
    /\ (pc = "for" /\ attempt = 0) => response_log = <<>>
    /\ (pc # "idle") => attempt = Len(dispatched)
    /\ (pc = "done" /\ IsRetriesError) =>
          /\ DOMAIN result.exc.response_log = 1..Len(received)
          /\ \A i \in 1..Len(received) : result.exc.response_log[i] = received[i]

\* a call starts on an engine whose last call had recorded three responses:
\* its record is empty and nothing is dispatched or received yet
C11_Witness ==
    /\ pc = "for"
    /\ attempt = 0
    /\ last_recorded = 3
    /\ max_retries = 2
    /\ response_log = <<>>
    /\ dispatched = <<>>
    /\ received = <<>>

\* C12: an ensure call leaves the engine configuration (model, preface, default
\* max_retries, default allow_decline) as it was before the call, whatever its
\* arguments and its outcome: only the two preface setters change it.
C12_EnsureKeepsEngine ==
    [][(pc # "idle" \/ pc' # "idle") => engine' = engine]_vars

\* C19: the decline flag of a call is the allow_decline argument when one is
\* given, an explicit False included, and the default of the engine otherwise;
\* when it is False the call never raises LLMDeclinedError and every response
\* received, "declined" included, goes to the parser, whose verdict decides.
C19_DeclineFlag ==
    /\ (pc = "for" /\ attempt = 0) =>
          allow_decline = (IF passed.allow_decline.given
                           THEN passed.allow_decline.value
                           ELSE self_allow_decline)
    /\ (pc # "idle" /\ ~allow_decline) =>
          /\ ~(result.kind = "raised" /\ result.exc.type = "LLMDeclinedError")
          /\ (pc \in {"except", "for", "done"} /\ transport_exc.type = "none") =>
                parse_calls = Len(received)
          /\ (pc = "done" /\ result.kind = "returned") =>
                parsed.exc = "none" /\ result.value = parsed.value
          /\ (pc = "except") => parsed.exc = "ParseFailedError"

\* the default is True and the call passed False; the parser rejected a first
\* "declined" response, which was retried, and accepted a second one
C19_Witness ==
    /\ self_allow_decline
    /\ ~allow_decline
    /\ pc = "done"
    /\ result.kind = "returned"
    /\ Len(received) = 2
    /\ IsDecline(received[1])
    /\ IsDecline(received[2])
    /\ Len(notices) = 1

\* C20: max_retries >= 1 is not checked by ensure: when the resolved count is 0
\* or negative, from the argument or from the default of the engine, the call
\* dispatches nothing, calls neither the parser nor the reporting hook, and
\* raises LLMRetriesError with that count and an empty response_log.
C20_NoAttemptAllowed ==
    (pc # "idle" /\ max_retries <= 0) =>
        /\ pc \in {"for", "done"}
        /\ dispatched = <<>>
        /\ received = <<>>
        /\ parse_calls = 0
        /\ notices = <<>>
        /\ (pc = "done") => result = Raised(LLMRetriesError(max_retries, prompt, <<>>))

\* a call that passed max_retries=-1 has ended
C20_Witness ==
    /\ pc = "done"
    /\ max_retries = 0 - 1
    /\ IsRetriesError
    /\ result.exc.max_retries = 0 - 1
    /\ result.exc.response_log = <<>>

(***************************************************************************)
(* The parsers alone: a parser of parsers.py is called with a response.   *)
(***************************************************************************)
\* the response texts the parsers are applied to
ParserTexts ==
    { <<"t", "r", "u", "e">>,
      <<"T", "r", "u", "e">>,
      <<" ", "Y", "E", "S", "\n">>,
      <<"n", "o">>,
      <<"F", "a", "l", "s", "e">>,
      <<"m", "a", "y", "b", "e">>,
      <<>>,
      <<"1">>,
      <<"0">>,
      <<"7">>,
      <<"-", "1", "2">>,
      <<" ", "1", "5", "\t">>,
      <<"3", ".", "0">>,
      <<"t", "e", "n">>,
      <<"+", "5">>,
      <<"1", "_", "0">>,
      <<"0", "0", "7">>,
      <<"-">>,
      <<"1", "_", "_", "0">>,
      <<"-", " ", "5">>,
      <<"3", ".", "1", "4">>,
      <<"1", "e", "3">>,
      <<".", "5">>,
      <<"n", "a", "n">>,
      <<"-", "I", "n", "f">>,
      <<"1", "e">>,
      <<"a", ",", "b">>,
      <<" ", "a", " ", ",", " ", "b", " ", ",">>,
      <<",", " ", ",">>,
      <<"a", ";", "b">>,
      <<" ", ";", " ", ";", " ">>,
      <<"x", ":", ":", "y">>,
      <<"x", ":", ":", ":", "y">>,
      <<" ", " ", " ">>,
      <<"Y", "e", "s">>,
      <<"y", "e", "s">>,
      <<" ", "n", "o", " ">>,
      <<"A">>,
      <<"b", " ", "c">> }

\* a parser and a response are chosen; no engine call is under way
InitParsers ==
    /\ self_model = ModelName
    /\ self_std_preface = Some(<<>>)
    /\ self_max_retries = MaxRetriesBound
    /\ self_allow_decline = TRUE
    /\ ctor_preface = self_std_preface
    /\ preface_calls = "none"
    /\ pc = "parser_call"
    /\ parser \in ConcreteParsers
    /\ raw \in ParserTexts
    /\ passed = NoArgs
    /\ last_recorded = 0
    /\ body = <<>>
    /\ prompt = <<>>
    /\ allow_decline = FALSE
    /\ max_retries = 0
    /\ response_log = <<>>
    /\ attempt = 0
    /\ parsed = [exc |-> "unset"]
    /\ result = NoResult
    /\ dispatched = <<>>
    /\ received = <<>>
    /\ transport_exc = [type |-> "none"]
    /\ parse_calls = 0
    /\ caught = 0
    /\ notices = <<>>

\* parser(response=raw): parsed is the value returned or the exception raised
CallParser ==
    /\ pc = "parser_call"
    /\ parsed' \in ParserCall(parser, raw)
    /\ parse_calls' = parse_calls + 1
    /\ pc' = "parser_done"
    /\ UNCHANGED <<engine, history, passed, last_recorded, body, parser, prompt, allow_decline,
                   max_retries, response_log, attempt, raw, result,
                   dispatched, received, transport_exc, caught, notices>>

ParserSpec == InitParsers /\ [][CallParser]_vars

\* C14: every parser of parsers.py, for every response, returns a value or
\* raises ParseFailedError with the response as it was given, untrimmed; no
\* other exception leaves a parser.
C14_OnlyParseFailedError ==
    (pc = "parser_done") => (parsed.exc = "none" \/ parsed = ParseFailedError(raw))

BooleanTrue == {<<"t", "r", "u", "e">>, <<"y", "e", "s">>}

BooleanFalse == {<<"f", "a", "l", "s", "e">>, <<"n", "o">>}

\* C15: parse_boolean returns True exactly when the response, trimmed and
\* lower-cased, is "true" or "yes", False exactly when it is "false" or "no", and
\* raises ParseFailedError for every other response ("maybe", "", "1").
C15_ParseBoolean ==
    (pc = "parser_done" /\ parser = "parse_boolean") =>
        LET normalized == Lower(Strip(raw))
        IN  /\ (parsed = Returned(TRUE)) <=> (normalized \in BooleanTrue)
            /\ (parsed = Returned(FALSE)) <=> (normalized \in BooleanFalse)
            /\ (parsed = ParseFailedError(raw)) <=>
                   (normalized \notin BooleanTrue \cup BooleanFalse)
            /\ (raw \in {<<"m", "a", "y", "b", "e">>, <<>>, <<"1">>}) =>
                   parsed = ParseFailedError(raw)

\* parse_boolean was given " YES\n" and returned True
C15_Witness ==
    /\ pc = "parser_done"
    /\ parser = "parse_boolean"
    /\ raw = <<" ", "Y", "E", "S", "\n">>
    /\ parsed = Returned(TRUE)

\* the places of response where a separator taken by the split begins:
\* occurrences from left to right, none inside one taken before it
Cuts(response, separator) ==
    LET n    == Len(separator)
        occurrences == {i \in 1..(Len(response) - n + 1) :
                            SubSeq(response, i, i + n - 1) = separator}
    IN  CHOOSE taken \in SUBSET occurrences :
            \A i \in occurrences :
                (i \in taken) <=> ~(\E c \in taken : c < i /\ i < c + n)

\* the k-th smallest place of cuts
CutAt(cuts, k) == CHOOSE c \in cuts : Cardinality({d \in cuts : d < c}) = k - 1

\* what lies between the separators, from left to right
Segments(response, separator) ==
    LET cuts == Cuts(response, separator)
        m    == Cardinality(cuts)
    IN  [k \in 1..(m + 1) |->
            SubSeq(response,
                   IF k = 1 THEN 1 ELSE CutAt(cuts, k - 1) + Len(separator),
                   IF k = m + 1 THEN Len(response) ELSE CutAt(cuts, k) - 1)]

\* the segments trimmed, those empty after trimming left out, in their order
KeptSegments(response, separator) ==
    LET segments == Segments(response, separator)
    IN  SelectSeq([k \in 1..Len(segments) |-> Strip(segments[k])],
                  LAMBDA segment : segment # <<>>)

\* C16: StringListParser splits the response on its separator (default ","),
\* trims every segment, drops the segments that are empty after trimming and
\* returns the others in their order; when none is left it raises
\* ParseFailedError if allow_empty is false and returns the empty list if it
\* is true.
C16_StringList ==
    (pc = "parser_done" /\ parser \in DOMAIN ListParsers) =>
        LET items == KeptSegments(raw, ListParsers[parser].separator)
        IN  IF items = <<>>
            THEN IF ListParsers[parser].allow_empty THEN parsed = Returned(<<>>)
                 ELSE parsed = ParseFailedError(raw)
            ELSE parsed = Returned(items)

\* C17: StringChoiceParser returns the trimmed response exactly when the trimmed
\* text is a member of the choices, letter case told apart, and raises
\* ParseFailedError otherwise: with the choices {"yes", "no"}, "Yes" is rejected.
C17_StringChoice ==
    (pc = "parser_done" /\ parser \in DOMAIN ChoiceParsers) =>
        /\ (parsed.exc = "none") <=> (Strip(raw) \in ChoiceParsers[parser])
        /\ (parsed.exc = "none") => parsed = Returned(Strip(raw))
        /\ (parsed.exc # "none") => parsed = ParseFailedError(raw)
        /\ (parser = "StringChoiceParser({'yes', 'no'})" /\ raw = <<"Y", "e", "s">>) =>
              parsed = ParseFailedError(raw)

\* StringChoiceParser({"yes", "no"}) was given "Yes" and raised ParseFailedError
C17_Witness ==
    /\ pc = "parser_done"
    /\ parser = "StringChoiceParser({'yes', 'no'})"
    /\ raw = <<"Y", "e", "s">>
    /\ parsed = ParseFailedError(<<"Y", "e", "s">>)

\* an optionally signed decimal integer literal: [sign] digit (["_"] digit)*
IsIntegerLiteral(text) ==
    LET digits == IF text # <<>> /\ text[1] \in {"+", "-"} THEN Tail(text) ELSE text
        Digit  == {"0", "1", "2", "3", "4", "5", "6", "7", "8", "9"}
    IN  /\ digits # <<>>
        /\ \A i \in 1..Len(digits) :
              \/ digits[i] \in Digit
              \/ /\ digits[i] = "_"
                 /\ 1 < i /\ i < Len(digits)
                 /\ digits[i - 1] \in Digit
                 /\ digits[i + 1] \in Digit

\* the integers the literals among the response texts denote
ExpectedIntegers ==
    (<<"1">> :> 1)
    @@ (<<"0">> :> 0)
    @@ (<<"7">> :> 7)
    @@ (<<"-", "1", "2">> :> 0 - 12)
    @@ (<<" ", "1", "5", "\t">> :> 15)
    @@ (<<"+", "5">> :> 5)
    @@ (<<"1", "_", "0">> :> 10)
    @@ (<<"0", "0", "7">> :> 7)

\* C18: parse_integer returns the integer that the response, trimmed, denotes
\* when the trimmed text is an optionally signed decimal integer literal, and
\* raises ParseFailedError for every other text, "3.0" and "ten" among them.
C18_ParseInteger ==
    (pc = "parser_done" /\ parser = "parse_integer") =>
        /\ (parsed.exc = "none") <=> IsIntegerLiteral(Strip(raw))
        /\ (parsed.exc = "none") =>
              raw \in DOMAIN ExpectedIntegers /\ parsed = Returned(ExpectedIntegers[raw])
        /\ (parsed.exc # "none") => parsed = ParseFailedError(raw)
        /\ (raw \in {<<"3", ".", "0">>, <<"t", "e", "n">>}) => parsed = ParseFailedError(raw)

\* parse_integer was given "-12" and returned -12
C18_Witness ==
    /\ pc = "parser_done"
    /\ parser = "parse_integer"
    /\ raw = <<"-", "1", "2">>
    /\ parsed = Returned(0 - 12)

(***************************************************************************)
(* Calls whose parser can return a falsy value: False, 0 or [].           *)
(***************************************************************************)
FalsyParsers == {"parse_boolean", "parse_integer", "StringListParser(allow_empty=True)"}

FalsyResponses ==
    { <<"n", "o">>, <<"0">>, <<" ", ",", " ">>, <<" ", "7", " ">>,
      <<"D", "E", "C", "L", "I", "N", "E", "D">> }

NextFalsy ==
    \/ \E b \in Bodies, p \in FalsyParsers, mr \in MaxRetriesArgs, ad \in AllowDeclineArgs :
          Ensure(b, p, mr, ad)
    \/ EnsureStep
    \/ \E r \in FalsyResponses : GetResponseReturns(r)
    \/ Return

FalsySpec == InitCalls /\ [][NextFalsy]_vars

\* pc = "done" after the parser was called on the response of this attempt
ParsedLast == pc = "done" /\ attempt >= 1 /\ parse_calls = attempt /\ parsed.exc # "unset"

\* C13: a falsy value from the parser (False, 0, the empty list of a
\* StringListParser with allow_empty) is a success: ensure returns it at that
\* attempt, with no notice for it and no further dispatch; a notice is only made
\* for a response on which the parser raised ParseFailedError.
C13_FalsyValueReturned ==
    /\ (ParsedLast /\ parser = "parse_boolean" /\ raw = <<"n", "o">>) =>
          result = ReturnedValue(FALSE)
    /\ (ParsedLast /\ parser = "parse_integer" /\ raw = <<"0">>) =>
          result = ReturnedValue(0)
    /\ (ParsedLast /\ parser = "StringListParser(allow_empty=True)"
                   /\ raw = <<" ", ",", " ">>) =>
          result = ReturnedValue(<<>>)
    /\ (pc = "done" /\ result.kind = "returned") =>
          /\ parsed = Returned(result.value)
          /\ Len(dispatched) = attempt
          /\ parse_calls = attempt
          /\ Len(notices) = attempt - 1
    /\ (pc # "idle") =>
          /\ Len(notices) <= caught
          /\ \A i \in 1..Len(notices) :
                ParserCall(parser, notices[i].raw) = {ParseFailedError(notices[i].raw)}

\* parse_integer rejected "no" at attempt 1 and returned 0 for "0" at attempt 2
C13_Witness ==
    /\ pc = "done"
    /\ parser = "parse_integer"
    /\ max_retries = 3
    /\ attempt = 2
    /\ received = << <<"n", "o">>, <<"0">> >>
    /\ result = ReturnedValue(0)
    /\ Len(notices) = 1
    /\ Len(dispatched) = 2

====
